---- MODULE Spec2Model ----
(***************************************************************************)
(* The conversation/session manager of cli_llm_chat: the chat command of   *)
(* main.py (entering a conversation, single-message mode, the interactive  *)
(* loop and its slash-commands), the conversation and configuration files  *)
(* of config/settings.py and the completion call of api/openrouter.py.     *)
(*                                                                         *)
(* One behaviour is a sequence of process runs of the chat command over    *)
(* one configuration directory: the files (config_file, store) outlive a   *)
(* run, the in-memory state (config, conversation_history, conversation)   *)
(* is that of the running process.  The `try:` at main.py:178 has no       *)
(* handler in the source; the loop is modelled as its body reads.          *)
(***************************************************************************)
EXTENDS Integers, Sequences, FiniteSets, TLC

VARIABLES
    pc,                    \* position of the process: Idle, AwaitingInput, Terminated, Crashed
    env,                   \* environment variables of the process (os.environ)
    config_file,           \* config.json: [state: missing | unparsable | json, data: dict]
    store,                 \* conversations/<id>.json: id -> serialized text (token sequence)
    config,                \* main.py: global config (dict)
    conversation_history,  \* main.py:67 global dict: name -> list of messages
    conversation,          \* main.py: local `conversation` of chat()
    request,               \* payload "messages" of the requests issued by the last step
    shown,                 \* last line printed on the console by the last step
    listing,               \* names printed by the last /list
    loaded_messages,       \* result of the last load_conversation call (main.py:108, 247)
    last,                  \* the last step: operation, input line, outcome
    saved,                 \* history: names given to a /save that returned, in this run
    written,               \* history: id -> messages last passed to save_conversation
    steps                  \* steps taken so far

vars == <<pc, env, config_file, store, config, conversation_history, conversation,
          request, shown, listing, loaded_messages, last, saved, written, steps>>

-----------------------------------------------------------------------------
(* Bounds of the model *)

\* steps (process starts and input lines) of one behaviour
MaxSteps == 4

-----------------------------------------------------------------------------
(* Values *)

None == "<None>"

\* conversation names a user can give; the last one has a directory component
Names == {"n1", "n2", "d/x"}

\* the id generated for an unnamed conversation (main.py:116)
GeneratedId == "8f3a2c1e"

ApiKey == "sk-or-v1-k"

Levels == {"short", "medium", "long"}

\* main.py:125-129 and main.py:224-228: the three-way table
system_message(verbosity) ==
    CASE verbosity = "short" ->
           "You are a helpful AI assistant. IMPORTANT: Always provide concise responses of 1-5 lines maximum. Keep explanations minimal and focused."
      [] verbosity = "medium" ->
           "You are a helpful AI assistant. IMPORTANT: Provide balanced responses between 5-15 lines. Include key details and brief examples while maintaining clarity."
      [] verbosity = "long" ->
           "You are a helpful AI assistant. IMPORTANT: Provide comprehensive responses with detailed explanations, relevant examples, and thorough context. Focus on depth and completeness."

Message(role, content) == [role |-> role, content |-> content]

-----------------------------------------------------------------------------
(* Dictionaries (Python dict as a function on its keys) *)

EmptyDict == [k \in {} |-> None]

Get(d, k, default) == IF k \in DOMAIN d THEN d[k] ELSE default

\* dict.update / item assignment
Update(d, e) == [k \in (DOMAIN d) \cup (DOMAIN e) |-> IF k \in DOMAIN e THEN e[k] ELSE d[k]]

Put(d, k, v) == [x \in (DOMAIN d) \cup {k} |-> IF x = k THEN v ELSE d[x]]

\* Python truthiness of an optional string
Truthy(s) == s # None /\ s # ""

-----------------------------------------------------------------------------
(* Config Store: config/settings.py *)

\* settings.py:44-48
DEFAULT_CONFIG ==
    [k \in {"response_verbosity", "api_key", "default_model"} |->
        CASE k = "response_verbosity" -> "brief"
          [] k = "api_key" -> None
          [] k = "default_model" -> "google/gemini-2.0-flash-001"]

\* json.dump / json.load of a flat dict: the set of its key/value members
ConfigDump(d) == {<<k, d[k]>> : k \in DOMAIN d}

ConfigParse(text) == [k \in {p[1] : p \in text} |-> (CHOOSE p \in text : p[1] = k)[2]]

\* settings.py:64-75: an environment variable overrides when set and non-empty
EnvOverride(cfg, e, var, key) ==
    IF Truthy(Get(e, var, None)) THEN Put(cfg, key, e[var]) ELSE cfg

\* faulty variant of load_config, kept to show the property below is sensitive to it: the environment is applied after the file
load_config_env_last(e, file) ==
    LET c0 == IF file.state = "json" THEN Update(DEFAULT_CONFIG, ConfigParse(file.text))
              ELSE DEFAULT_CONFIG
        c1 == EnvOverride(c0, e, "OPENROUTER_API_KEY", "api_key")
        c2 == EnvOverride(c1, e, "DEFAULT_MODEL", "default_model")
    IN  EnvOverride(c2, e, "RESPONSE_VERBOSITY", "response_verbosity")

\* settings.py:51-88
load_config(e, file) ==
    LET c0 == DEFAULT_CONFIG
        c1 == EnvOverride(c0, e, "OPENROUTER_API_KEY", "api_key")
        c2 == EnvOverride(c1, e, "DEFAULT_MODEL", "default_model")
        c3 == EnvOverride(c2, e, "RESPONSE_VERBOSITY", "response_verbosity")
    IN  IF file.state = "json" THEN Update(c3, ConfigParse(file.text)) ELSE c3

\* faulty variant of save_config, kept to show the property below is sensitive to it: only the verbosity entry is written
save_config_verbosity_only(cfg) ==
    [state |-> "json", text |-> {p \in ConfigDump(cfg) : p[1] = "verbosity"}]

\* settings.py:91-104: the file is overwritten with the whole dict
save_config(cfg) == [state |-> "json", text |-> ConfigDump(cfg)]

-----------------------------------------------------------------------------
(* Conversation Store: config/settings.py *)

\* json.dump(messages): the objects in list order, each with its role and content
json_dump(messages) ==
    [i \in 1..(2 * Len(messages)) |->
        IF i % 2 = 1 THEN messages[(i + 1) \div 2].role ELSE messages[i \div 2].content]

\* faulty variant of json_load, kept to show the property below is sensitive to it: the objects come back in reverse order
json_load_reversed(text) ==
    [i \in 1..(Len(text) \div 2) |->
        Message(text[Len(text) - 2 * i + 1], text[Len(text) - 2 * i + 2])]

\* json.load of such a text
json_load(text) ==
    [i \in 1..(Len(text) \div 2) |-> Message(text[2 * i - 1], text[2 * i])]

\* conv_dir / f"{conversation_id}.json" lies in a directory that does not exist
\* when the id has a directory component (settings.py:128): open(..., "w") raises
HasDirectoryPart(conversation_id) == conversation_id \in {"d/x"}

\* faulty variant of save_conversation, kept to show the property below is sensitive to it: the last message is not written
save_conversation_stale(files, conversation_id, messages) ==
    IF HasDirectoryPart(conversation_id) \/ messages = <<>>
    THEN files
    ELSE Put(files, conversation_id, json_dump(SubSeq(messages, 1, Len(messages) - 1)))

\* settings.py:119-134: the write error is caught and printed, the files are unchanged
save_conversation(files, conversation_id, messages) ==
    IF HasDirectoryPart(conversation_id)
    THEN files
    ELSE Put(files, conversation_id, json_dump(messages))

\* faulty variant of load_conversation, kept to show the property below is sensitive to it: a missing record reads as some other stored one
load_conversation_any(files, conversation_id) ==
    IF conversation_id \in DOMAIN files THEN json_load(files[conversation_id])
    ELSE IF DOMAIN files = {} THEN <<>>
    ELSE json_load(files[CHOOSE other \in DOMAIN files : TRUE])

\* settings.py:137-158
load_conversation(files, conversation_id) ==
    IF conversation_id \notin DOMAIN files THEN <<>> ELSE json_load(files[conversation_id])

\* settings.py:161-173: the stems of conversations/*.json
list_conversations(files) == DOMAIN files

-----------------------------------------------------------------------------
(* Chat API Gateway: api/openrouter.py *)

\* What the remote end answers to one POST: a transport failure, or a status
\* with a body (its raw text, and its JSON value when it parses).
Response(transport, status, parses, json, text) ==
    [transport |-> transport, status |-> status, parses |-> parses, json |-> json, text |-> text]

OkHello ==
    Response(FALSE, 200, TRUE,
             [k \in {"choices"} |-> <<[m \in {"message"} |-> [c \in {"content"} |-> "Hello!"]]>>],
             "{choices:[{message:{content:Hello!}}]}")

OkNoChoices == Response(FALSE, 200, TRUE, [k \in {"choices"} |-> <<>>], "{choices:[]}")

Err401 ==
    Response(FALSE, 401, TRUE, [k \in {"error"} |-> [m \in {"message"} |-> "bad key"]],
             "{error:{message:bad key}}")

ConnectionFailed == Response(TRUE, 0, FALSE, EmptyDict, "connection refused")

\* the answers drawn for a chat line
Responses == {OkHello, OkNoChoices, Err401, ConnectionFailed}

Raise(text) == [ok |-> FALSE, data |-> EmptyDict, error |-> text]

Return(data) == [ok |-> TRUE, data |-> data, error |-> ""]

\* openrouter.py:88-103: the text of the error raised on a status other than 200
error_msg(resp) ==
    LET status_msg == "API Error: " \o ToString(resp.status)
        body_msg == IF resp.text # "" THEN "API Error: " \o resp.text ELSE status_msg
    IN  IF ~resp.parses THEN body_msg
        ELSE IF "error" \in DOMAIN resp.json
             THEN IF "message" \in DOMAIN resp.json["error"]
                  THEN "API Error: " \o resp.json["error"]["message"]
                  ELSE body_msg
        ELSE IF "message" \in DOMAIN resp.json
             THEN "API Error: " \o resp.json["message"]
        ELSE status_msg

\* openrouter.py:35-109
chat_completion(messages, resp) ==
    IF Len(messages) = 0 THEN Raise("No messages provided. Please provide at least one message.")
    ELSE IF resp.transport THEN Raise("Network error: " \o resp.text)
    ELSE IF resp.status # 200 THEN Raise(error_msg(resp))
    ELSE IF ~resp.parses THEN Raise("Network error: Expecting value")
    ELSE Return(resp.json)

\* main.py:149 and main.py:272:
\* response.get("choices", [{}])[0].get("message", {}).get("content", "")
assistant_message(data) ==
    LET choices == Get(data, "choices", <<EmptyDict>>)
    IN  IF Len(choices) = 0 THEN Raise("list index out of range")
        ELSE Return(Get(Get(choices[1], "message", EmptyDict), "content", ""))

-----------------------------------------------------------------------------
(* Session Controller: main.py, chat() *)

\* An input line, split at the command prefix the dispatcher tests for:
\* user_input is head followed by arg.
Line(head, arg) == [head |-> head, arg |-> arg]

Text(line) == line.head \o line.arg

\* str.strip() of a command's argument
Strip(arg) == IF arg \in {"", " "} THEN "" ELSE arg

\* the lines typed at the prompt
InputLines ==
    {Line(t, "") : t \in {"/exit", "/clear", "/help", "/list", "/vs", "/vm", "/vl"}}
    \cup {Line("/verbosity ", a) : a \in {"long", "loud"}}
    \cup {Line("/save ", a) : a \in Names \cup {""}}
    \cup {Line("/load ", a) : a \in Names \cup {""}}
    \cup {Line("", t) : t \in {"Hi", "", "/save"}}

\* main.py:209: startswith("/verbosity ") or one of the shortcuts
IsVerbosity(line) == line.head = "/verbosity " \/ Text(line) \in {"/vs", "/vm", "/vl"}

\* main.py:182-256: the line matches one of the command branches
IsCommand(line) ==
    \/ Text(line) \in {"/exit", "/clear", "/help", "/list"}
    \/ line.head \in {"/save ", "/load "}
    \/ IsVerbosity(line)

\* main.py:211-218
new_verbosity(line) ==
    CASE Text(line) = "/vs" -> "short"
      [] Text(line) = "/vm" -> "medium"
      [] Text(line) = "/vl" -> "long"
      [] OTHER -> Strip(line.arg)

\* conversation_history[conversation] can be read
HasActive == conversation \in DOMAIN conversation_history

\* the active conversation's in-memory history
Active == conversation_history[conversation]

\* faulty variant of Exchange, kept to show the property below is sensitive to it: the reply is put before the user message
Exchange_reply_first(history, text, resp) ==
    LET sent == Append(history, Message("user", text))
        response == chat_completion(sent, resp)
        reply == IF response.ok THEN assistant_message(response.data) ELSE response
    IN  [history |-> IF reply.ok
                     THEN history \o <<Message("assistant", reply.data), Message("user", text)>>
                     ELSE sent,
         sent |-> sent,
         ok |-> reply.ok,
         shown |-> IF reply.ok THEN reply.data ELSE "Error: " \o reply.error]

\* faulty variant of Exchange, kept to show the property below is sensitive to it: a failed request leaves an error message in the history
Exchange_error_message(history, text, resp) ==
    LET sent == Append(history, Message("user", text))
        response == chat_completion(sent, resp)
        reply == IF response.ok THEN assistant_message(response.data) ELSE response
    IN  [history |-> IF reply.ok THEN Append(sent, Message("assistant", reply.data))
                     ELSE Append(sent, Message("assistant", "Error: " \o reply.error)),
         sent |-> sent,
         ok |-> reply.ok,
         shown |-> IF reply.ok THEN reply.data ELSE "Error: " \o reply.error]

\* faulty variant of Exchange, kept to show the property below is sensitive to it: only the new user message is sent
Exchange_last_only(history, text, resp) ==
    LET sent == Append(history, Message("user", text))
        response == chat_completion(sent, resp)
        reply == IF response.ok THEN assistant_message(response.data) ELSE response
    IN  [history |-> IF reply.ok THEN Append(sent, Message("assistant", reply.data)) ELSE sent,
         sent |-> <<Message("user", text)>>,
         ok |-> reply.ok,
         shown |-> IF reply.ok THEN reply.data ELSE "Error: " \o reply.error]

\* main.py:137-164 and main.py:259-286: the user message is appended, one request
\* is sent with the whole list, and the reply is appended when it can be read
Exchange(history, text, resp) ==
    LET sent == Append(history, Message("user", text))
        response == chat_completion(sent, resp)
        reply == IF response.ok THEN assistant_message(response.data) ELSE response
    IN  [history |-> IF reply.ok THEN Append(sent, Message("assistant", reply.data)) ELSE sent,
         sent |-> sent,
         ok |-> reply.ok,
         shown |-> IF reply.ok THEN reply.data ELSE "Error: " \o reply.error]

\* no request was sent
NoResponse == Response(FALSE, 0, FALSE, EmptyDict, "")

\* the record of a step: the branch taken, the line read, the gateway's answer to
\* its request, whether the branch completed its effect, the exception that left it
Step(op, line, resp, ok, raised) ==
    /\ last' = [op |-> op, line |-> line, resp |-> resp, ok |-> ok, raised |-> raised]
    /\ steps' = steps + 1

\* an exception leaves the loop and ends the process
Uncaught(op, line, exception) ==
    /\ pc' = "Crashed"
    /\ shown' = exception
    /\ Step(op, line, NoResponse, FALSE, exception)

-----------------------------------------------------------------------------
(* A process run begins: chat(message, conversation), main.py:70-173 *)

\* main.py:87
api_key(cfg, e) ==
    IF Truthy(Get(cfg, "api_key", None)) THEN cfg["api_key"] ELSE Get(e, "OPENROUTER_API_KEY", "")

\* main.py:105-117, from the empty conversation_history of a new process
Entered(conv) ==
    IF Truthy(conv) /\ conv \notin DOMAIN EmptyDict
    THEN Put(EmptyDict, conv, load_conversation(store, conv))
    ELSE IF conv = None THEN Put(EmptyDict, GeneratedId, <<>>)
    ELSE EmptyDict

Start(conv, message, resp) ==
    LET cfg == load_config(env, config_file)
        name == IF conv = None THEN GeneratedId ELSE conv
        entered == Entered(conv)
        verbosity == Get(cfg, "verbosity", "medium")
        seeded == IF entered[name] = <<>>
                  THEN Put(entered, name, <<Message("system", system_message(verbosity))>>)
                  ELSE entered
        x == Exchange(seeded[name], message, resp)
        line == Line("", IF message = None THEN "" ELSE message)
    IN  /\ pc \in {"Idle", "Terminated", "Crashed"}
        /\ steps < MaxSteps
        /\ config' = cfg
        /\ conversation' = name
        /\ listing' = {}
        /\ saved' = {}
        /\ UNCHANGED <<env, config_file>>
        /\ loaded_messages' = IF Truthy(api_key(cfg, env)) /\ Truthy(conv)
                              THEN load_conversation(store, conv) ELSE <<>>
        /\ IF ~Truthy(api_key(cfg, env))
           THEN \* main.py:89-91
                /\ pc' = "Terminated"
                /\ shown' = "Error: API key not found. Please set it using the config_set command."
                /\ conversation_history' = EmptyDict
                /\ request' = <<>>
                /\ Step("start", line, NoResponse, FALSE, "")
                /\ UNCHANGED <<store, written>>
           ELSE IF name \notin DOMAIN entered \/ (entered[name] = <<>> /\ verbosity \notin Levels)
           THEN \* main.py:120 and main.py:125-129: KeyError
                /\ conversation_history' = entered
                /\ request' = <<>>
                /\ Uncaught("start", line, "KeyError")
                /\ UNCHANGED <<store, written>>
           ELSE IF Truthy(message)
           THEN \* main.py:136-166: single message mode
                /\ pc' = "Terminated"
                /\ conversation_history' = Put(seeded, name, x.history)
                /\ request' = <<x.sent>>
                /\ shown' = x.shown
                /\ store' = IF x.ok THEN save_conversation(store, name, x.history) ELSE store
                /\ written' = IF x.ok THEN Put(written, name, x.history) ELSE written
                /\ Step("message", line, resp, x.ok, "")
           ELSE \* main.py:168-173: interactive mode
                /\ pc' = "AwaitingInput"
                /\ conversation_history' = seeded
                /\ request' = <<>>
                /\ shown' = "Type your messages below."
                /\ Step("start", line, NoResponse, FALSE, "")
                /\ UNCHANGED <<store, written>>

-----------------------------------------------------------------------------
(* The interactive loop: one action per branch of main.py:175-286 *)

\* main.py:182-184
Exit(line) ==
    /\ pc = "AwaitingInput"
    /\ steps < MaxSteps
    /\ Text(line) = "/exit"
    /\ pc' = "Terminated"
    /\ shown' = "Exiting chat session..."
    /\ request' = <<>>
    /\ Step("exit", line, NoResponse, FALSE, "")
    /\ UNCHANGED <<env, config_file, store, config, conversation_history, conversation,
                   listing, loaded_messages, saved, written>>

\* faulty variant of Clear, kept to show the property below is sensitive to it: every in-memory history is emptied
Clear_all(line) ==
    /\ pc = "AwaitingInput"
    /\ steps < MaxSteps
    /\ Text(line) = "/clear"
    /\ conversation_history' =
           [n \in (DOMAIN conversation_history) \cup {conversation} |-> <<>>]
    /\ shown' = "Conversation history cleared."
    /\ request' = <<>>
    /\ Step("clear", line, NoResponse, FALSE, "")
    /\ UNCHANGED <<pc, env, config_file, store, config, conversation, listing,
                   loaded_messages, saved, written>>

\* main.py:185-188
Clear(line) ==
    /\ pc = "AwaitingInput"
    /\ steps < MaxSteps
    /\ Text(line) = "/clear"
    /\ conversation_history' = Put(conversation_history, conversation, <<>>)
    /\ shown' = "Conversation history cleared."
    /\ request' = <<>>
    /\ Step("clear", line, NoResponse, FALSE, "")
    /\ UNCHANGED <<pc, env, config_file, store, config, conversation, listing,
                   loaded_messages, saved, written>>

\* main.py:189-197
Help(line) ==
    /\ pc = "AwaitingInput"
    /\ steps < MaxSteps
    /\ Text(line) = "/help"
    /\ shown' = "  /help - Show this help message"
    /\ request' = <<>>
    /\ Step("help", line, NoResponse, FALSE, "")
    /\ UNCHANGED <<pc, env, config_file, store, config, conversation_history, conversation,
                   listing, loaded_messages, saved, written>>

\* main.py:198-208
Save(line) ==
    LET new_name == Strip(line.arg)
    IN  /\ pc = "AwaitingInput"
        /\ steps < MaxSteps
        /\ line.head = "/save "
        /\ request' = <<>>
        /\ UNCHANGED <<env, config_file, config, conversation_history, listing, loaded_messages>>
        /\ IF new_name = ""
           THEN /\ shown' = "Please provide a name for the conversation"
                /\ Step("save", line, NoResponse, FALSE, "")
                /\ UNCHANGED <<pc, store, conversation, saved, written>>
           ELSE IF ~HasActive
           THEN \* main.py:202: conversation_history[conversation] raises KeyError
                /\ Uncaught("save", line, "KeyError")
                /\ UNCHANGED <<store, conversation, saved, written>>
           ELSE /\ store' = save_conversation(store, new_name, Active)
                /\ written' = Put(written, new_name, Active)
                /\ conversation' = new_name
                /\ saved' = saved \cup {new_name}
                /\ shown' = "Conversation saved as: " \o new_name
                /\ Step("save", line, NoResponse, TRUE, "")
                /\ UNCHANGED pc

\* main.py:209-234
Verbosity(line) ==
    LET level == new_verbosity(line)
        cfg == Put(config, "verbosity", level)
    IN  /\ pc = "AwaitingInput"
        /\ steps < MaxSteps
        /\ IsVerbosity(line)
        /\ request' = <<>>
        /\ UNCHANGED <<env, store, conversation, listing, loaded_messages, saved, written>>
        /\ IF level \notin Levels
           THEN /\ shown' = "Invalid verbosity level. Use 'short', 'medium', or 'long'"
                /\ Step("verbosity", line, NoResponse, FALSE, "")
                /\ UNCHANGED <<pc, config, config_file, conversation_history>>
           ELSE /\ config' = cfg
                /\ config_file' = save_config(cfg)
                /\ IF ~HasActive
                   THEN \* main.py:230: KeyError
                        /\ Uncaught("verbosity", line, "KeyError")
                        /\ UNCHANGED conversation_history
                   ELSE IF Active = <<>>
                   THEN \* main.py:230: IndexError
                        /\ Uncaught("verbosity", line, "IndexError")
                        /\ UNCHANGED conversation_history
                   ELSE /\ conversation_history' =
                               Put(conversation_history, conversation,
                                   [Active EXCEPT ![1] = Message("system", system_message(level))])
                        /\ shown' = "Verbosity changed to: " \o level
                        /\ Step("verbosity", line, NoResponse, TRUE, "")
                        /\ UNCHANGED pc

\* main.py:235-243
List(line) ==
    /\ pc = "AwaitingInput"
    /\ steps < MaxSteps
    /\ Text(line) = "/list"
    /\ listing' = list_conversations(store)
    /\ shown' = IF list_conversations(store) # {} THEN "Saved conversations:"
                ELSE "No saved conversations found."
    /\ request' = <<>>
    /\ Step("list", line, NoResponse, FALSE, "")
    /\ UNCHANGED <<pc, env, config_file, store, config, conversation_history, conversation,
                   loaded_messages, saved, written>>

\* faulty variant of Load, kept to show the property below is sensitive to it: an absent or empty record is taken too
Load_always(line) ==
    LET conv_name == Strip(line.arg)
        found == load_conversation(store, conv_name)
    IN  /\ pc = "AwaitingInput"
        /\ steps < MaxSteps
        /\ line.head = "/load "
        /\ request' = <<>>
        /\ UNCHANGED <<pc, env, config_file, store, config, listing, saved, written>>
        /\ loaded_messages' = IF conv_name = "" THEN loaded_messages
                              ELSE load_conversation(store, conv_name)
        /\ IF conv_name = ""
           THEN /\ shown' = "Please provide a name of the conversation to load"
                /\ Step("load", line, NoResponse, FALSE, "")
                /\ UNCHANGED <<conversation, conversation_history>>
           ELSE /\ conversation' = conv_name
                /\ conversation_history' = Put(conversation_history, conv_name, found)
                /\ shown' = "Loaded conversation: " \o conv_name
                /\ Step("load", line, NoResponse, TRUE, "")

\* main.py:244-256
Load(line) ==
    LET conv_name == Strip(line.arg)
        found == load_conversation(store, conv_name)
    IN  /\ pc = "AwaitingInput"
        /\ steps < MaxSteps
        /\ line.head = "/load "
        /\ request' = <<>>
        /\ UNCHANGED <<pc, env, config_file, store, config, listing, saved, written>>
        /\ loaded_messages' = IF conv_name = "" THEN loaded_messages
                              ELSE load_conversation(store, conv_name)
        /\ IF conv_name = ""
           THEN /\ shown' = "Please provide a name of the conversation to load"
                /\ Step("load", line, NoResponse, FALSE, "")
                /\ UNCHANGED <<conversation, conversation_history>>
           ELSE IF found # <<>>
           THEN /\ conversation' = conv_name
                /\ conversation_history' = Put(conversation_history, conv_name, found)
                /\ shown' = "Loaded conversation: " \o conv_name
                /\ Step("load", line, NoResponse, TRUE, "")
           ELSE /\ shown' = "Conversation not found: " \o conv_name
                /\ Step("load", line, NoResponse, FALSE, "")
                /\ UNCHANGED <<conversation, conversation_history>>

\* faulty variant of ChatLine, kept to show the property below is sensitive to it: the history is saved after a failed request too
ChatLine_save_always(line, resp) ==
    LET x == Exchange(Active, Text(line), resp)
    IN  /\ pc = "AwaitingInput"
        /\ steps < MaxSteps
        /\ ~IsCommand(line)
        /\ UNCHANGED <<env, config_file, config, conversation, listing, loaded_messages, saved>>
        /\ IF ~HasActive
           THEN /\ request' = <<>>
                /\ Uncaught("chat", line, "KeyError")
                /\ UNCHANGED <<store, written, conversation_history>>
           ELSE /\ conversation_history' = Put(conversation_history, conversation, x.history)
                /\ request' = <<x.sent>>
                /\ store' = save_conversation(store, conversation, x.history)
                /\ written' = Put(written, conversation, x.history)
                /\ shown' = x.shown
                /\ Step("chat", line, resp, x.ok, "")
                /\ UNCHANGED pc

\* main.py:258-286: any other line is a chat line
ChatLine(line, resp) ==
    LET x == Exchange(Active, Text(line), resp)
    IN  /\ pc = "AwaitingInput"
        /\ steps < MaxSteps
        /\ ~IsCommand(line)
        /\ UNCHANGED <<env, config_file, config, conversation, listing, loaded_messages, saved>>
        /\ IF ~HasActive
           THEN \* main.py:259: KeyError, outside the try
                /\ request' = <<>>
                /\ Uncaught("chat", line, "KeyError")
                /\ UNCHANGED <<store, written, conversation_history>>
           ELSE /\ conversation_history' = Put(conversation_history, conversation, x.history)
                /\ request' = <<x.sent>>
                /\ store' = IF x.ok THEN save_conversation(store, conversation, x.history)
                            ELSE store
                /\ written' = IF x.ok THEN Put(written, conversation, x.history) ELSE written
                /\ shown' = x.shown
                /\ Step("chat", line, resp, x.ok, "")
                /\ UNCHANGED pc

-----------------------------------------------------------------------------
(* The specification *)

\* the environment and the configuration file a first run can find
NoEnv == EmptyDict

KeyEnv == [k \in {"OPENROUTER_API_KEY"} |-> ApiKey]

NoFile == [state |-> "missing", text |-> {}]

BadFile == [state |-> "unparsable", text |-> {}]

KeyFile(verbosity) ==
    IF verbosity = None THEN save_config([k \in {"api_key"} |-> ApiKey])
    ELSE save_config([k \in {"api_key", "verbosity"} |-> IF k = "api_key" THEN ApiKey ELSE verbosity])

Setups ==
    {<<NoEnv, NoFile>>, <<NoEnv, BadFile>>, <<KeyEnv, NoFile>>,
     <<NoEnv, KeyFile(None)>>, <<NoEnv, KeyFile("long")>>, <<NoEnv, KeyFile("loud")>>}

\* the chat lines typed and the gateway's answer to each: every answer to "Hi",
\* a success to the other lines
ChatInputs ==
    {<<line, resp>> \in InputLines \X Responses :
        ~IsCommand(line) /\ (Text(line) = "Hi" \/ resp = OkHello)}

\* what chat() can be started with: --conversation and --message
Conversations == Names \cup {None, ""}

Messages == {None, "Hi"}

Init ==
    /\ pc = "Idle"
    /\ \E setup \in Setups : env = setup[1] /\ config_file = setup[2]
    /\ store = EmptyDict
    /\ config = load_config(env, config_file)
    /\ conversation_history = EmptyDict
    /\ conversation = None
    /\ request = <<>>
    /\ shown = ""
    /\ listing = {}
    /\ last = [op |-> "none", line |-> Line("", ""), resp |-> NoResponse, ok |-> FALSE,
               raised |-> ""]
    /\ saved = {}
    /\ written = EmptyDict
    /\ loaded_messages = <<>>
    /\ steps = 0

Next ==
    \/ \E conv \in Conversations, message \in Messages, resp \in Responses :
           Start(conv, message, resp)
    \/ \E line \in InputLines : Exit(line)
    \/ \E line \in InputLines : Clear(line)
    \/ \E line \in InputLines : Help(line)
    \/ \E line \in InputLines : Save(line)
    \/ \E line \in InputLines : Verbosity(line)
    \/ \E line \in InputLines : List(line)
    \/ \E line \in InputLines : Load(line)
    \/ \E input \in ChatInputs : ChatLine(input[1], input[2])

Spec == Init /\ [][Next]_vars

-----------------------------------------------------------------------------
(* The Conversation Store on its own: save_conversation and load_conversation *)
(* called with every id and every message list within the bounds            *)

\* longest message list handed to save_conversation
MaxLen == 2

StoreMessages == {Message("user", "Hi"), Message("assistant", "Hello!")}

MessageLists == UNION {[1..n -> StoreMessages] : n \in 0..MaxLen}

StoreInit ==
    /\ pc = "Store"
    /\ env = NoEnv
    /\ config_file = NoFile
    /\ store = EmptyDict
    /\ config = DEFAULT_CONFIG
    /\ conversation_history = EmptyDict
    /\ conversation = None
    /\ request = <<>>
    /\ shown = ""
    /\ listing = {}
    /\ last = [op |-> "none", line |-> Line("", ""), resp |-> NoResponse, ok |-> FALSE,
               raised |-> ""]
    /\ saved = {}
    /\ written = EmptyDict
    /\ loaded_messages = <<>>
    /\ steps = 0

\* save_conversation(conversation_id, messages)
CallSave(conversation_id, messages) ==
    /\ pc = "Store"
    /\ store' = save_conversation(store, conversation_id, messages)
    /\ written' = Put(written, conversation_id, messages)
    /\ loaded_messages' = <<>>
    /\ last' = [op |-> "save_conversation", line |-> Line("", conversation_id),
                resp |-> NoResponse, ok |-> TRUE, raised |-> ""]
    /\ UNCHANGED <<pc, env, config_file, config, conversation_history, conversation, request,
                   shown, listing, saved, steps>>

\* load_conversation(conversation_id)
CallLoad(conversation_id) ==
    /\ pc = "Store"
    /\ loaded_messages' = load_conversation(store, conversation_id)
    /\ last' = [op |-> "load_conversation", line |-> Line("", conversation_id),
                resp |-> NoResponse, ok |-> TRUE, raised |-> ""]
    /\ UNCHANGED <<pc, env, config_file, store, config, conversation_history, conversation,
                   request, shown, listing, saved, written, steps>>

StoreNext ==
    \/ \E conversation_id \in Names, messages \in MessageLists :
           CallSave(conversation_id, messages)
    \/ \E conversation_id \in Names : CallLoad(conversation_id)

StoreSpec == StoreInit /\ [][StoreNext]_vars

-----------------------------------------------------------------------------
(* Properties of the session, checked under Spec *)

\* the level the configuration holds, medium when it holds none (main.py:121)
ConfiguredVerbosity == Get(config, "verbosity", "medium")

\* the reply text of a success envelope: choices[0].message.content
EnvelopeContent(resp) == resp.json["choices"][1]["message"]["content"]

\* the step just taken was a chat line whose request was sent
ChatStep(step) == step.op = "chat" /\ step.raised = ""

\* C1: in every state of a session, a non-empty active history begins with a
\* message of role "system".
C1_SystemFirst == (HasActive /\ Active # <<>>) => Active[1].role = "system"

\* C2: in every state of a session, the system message at the head of the active
\* history has the content the three-way table gives for the configured
\* verbosity, also after entering or loading a conversation that was persisted
\* under another verbosity.
C2_SystemReflectsVerbosity ==
    (HasActive /\ Active # <<>> /\ Active[1].role = "system") =>
        /\ ConfiguredVerbosity \in Levels
        /\ Active[1].content = system_message(ConfiguredVerbosity)

\* C3: a chat line answered with a success envelope extends the active history
\* by user(line) then assistant(choices[0].message.content), earlier messages
\* unchanged; on a freshly seeded conversation the result is system, user,
\* assistant.
C3_ExchangeAppendsTwo ==
    [][(ChatStep(last') /\ last'.ok) =>
          /\ HasActive
          /\ Active' = Active \o <<Message("user", Text(last'.line)),
                                   Message("assistant", EnvelopeContent(last'.resp))>>
          /\ (last.op = "start" /\ loaded_messages = <<>>) =>
                 Active' = <<Message("system", system_message(ConfiguredVerbosity)),
                             Message("user", Text(last'.line)),
                             Message("assistant", EnvelopeContent(last'.resp))>>]_vars

\* C3 witness: the first line of a seeded conversation was "Hi", answered "Hello!"
C3_Witness ==
    /\ ChatStep(last) /\ last.ok /\ pc = "AwaitingInput"
    /\ Active = <<Message("system", system_message("medium")), Message("user", "Hi"),
                  Message("assistant", "Hello!")>>

\* C4: a chat line whose request fails leaves the history as it was plus the user
\* message, shows the error text and awaits input again; the next chat line is
\* appended after the dangling user message.
C4_FailureKeepsUserMessage ==
    [][/\ (ChatStep(last') /\ ~last'.ok) =>
              /\ HasActive
              /\ Active' = Append(Active, Message("user", Text(last'.line)))
              /\ pc' = "AwaitingInput"
              /\ last'.resp = Err401 => shown' = "Error: API Error: bad key"
              /\ last'.resp = ConnectionFailed =>
                     shown' = "Error: Network error: connection refused"
       /\ (ChatStep(last) /\ ~last.ok /\ last'.op = "chat") =>
              /\ ChatStep(last')
              /\ Active[Len(Active)] = Message("user", Text(last.line))
              /\ SubSeq(Active', 1, Len(Active) + 1) =
                     Append(Active, Message("user", Text(last'.line)))]_vars

\* C4 witness: "Hi" failed with 401 and a second "Hi" was then answered
C4_Witness ==
    /\ ChatStep(last) /\ last.ok
    /\ Active = <<Message("system", system_message("medium")), Message("user", "Hi"),
                  Message("user", "Hi"), Message("assistant", "Hello!")>>

\* C5 as claimed: after every successful exchange the record stored under the
\* active name equals the active history.
C5_PersistedAfterExchange ==
    (last.op \in {"chat", "message"} /\ last.ok) =>
        /\ conversation \in DOMAIN store
        /\ load_conversation(store, conversation) = Active

\* C5 amended: after every successful exchange under a name whose file can be
\* written (no directory component), the record stored under the active name
\* equals the active history, the assistant message included.
C5_PersistedWhenWritable ==
    (last.op \in {"chat", "message"} /\ last.ok /\ ~HasDirectoryPart(conversation)) =>
        /\ HasActive
        /\ conversation \in DOMAIN store
        /\ load_conversation(store, conversation) = Active
        /\ Active[Len(Active)].role = "assistant"

\* C5 witness: an interactive exchange was stored
C5_Witness ==
    /\ last.op = "chat" /\ last.ok
    /\ conversation \in DOMAIN store
    /\ Len(load_conversation(store, conversation)) = 3

\* C8 as claimed: after /save <name> with a non-empty name the record stored under
\* <name> equals the active history at the time of the command, and every later
\* /list of the session contains <name>.
C8_SaveStoresAndLists ==
    [][/\ (last'.op = "save" /\ Strip(last'.line.arg) # "") =>
              /\ last'.raised = ""
              /\ HasActive
              /\ Strip(last'.line.arg) \in DOMAIN store'
              /\ load_conversation(store', Strip(last'.line.arg)) = Active
       /\ last'.op = "list" => saved \subseteq listing']_vars

\* C9: /clear empties the active in-memory history and changes nothing else: not
\* the stored records, the other in-memory histories, the active name or the
\* configuration.
C9_ClearOnlyActive ==
    [][last'.op = "clear" =>
          /\ DOMAIN conversation_history' = (DOMAIN conversation_history) \cup {conversation}
          /\ conversation_history'[conversation] = <<>>
          /\ \A n \in (DOMAIN conversation_history) \ {conversation} :
                 conversation_history'[n] = conversation_history[n]
          /\ UNCHANGED <<store, conversation, config, config_file, env, pc>>]_vars

\* C9 witness: the active history was cleared while a record is stored and
\* another name holds a non-empty history in memory
C9_Witness ==
    /\ last.op = "clear" /\ HasActive /\ Active = <<>>
    /\ store # EmptyDict
    /\ \E n \in DOMAIN conversation_history :
           n # conversation /\ conversation_history[n] # <<>>

\* C10 as claimed: a verbosity command with a valid level keeps the length of the
\* active history, puts the level's system message at element 0 and leaves the
\* other elements; the same level issued again changes nothing.
C10_VerbosityReplacesHead ==
    [][(last'.op = "verbosity" /\ new_verbosity(last'.line) \in Levels) =>
          /\ HasActive
          /\ Active # <<>>
          /\ Active' = [Active EXCEPT ![1] =
                            Message("system", system_message(new_verbosity(last'.line)))]
          /\ (last.op = "verbosity" /\ new_verbosity(last.line) = new_verbosity(last'.line)) =>
                 Active' = Active]_vars

-----------------------------------------------------------------------------
(* Properties of the Conversation Store, checked under StoreSpec *)

\* C6 as claimed: for every id and every message list, load_conversation after
\* save_conversation returns the list last saved under that id.
C6_RoundTrip ==
    /\ \A id \in DOMAIN written : load_conversation(store, id) = written[id]
    /\ (last.op = "load_conversation" /\ last.line.arg \in DOMAIN written) =>
           loaded_messages = written[last.line.arg]

\* C6 amended: for every id whose file can be written (no directory component)
\* and every message list, load_conversation after save_conversation returns the
\* list last saved under that id, in order, with each role and content; for an
\* id whose file cannot be written it returns the empty list.
C6_RoundTripWhenWritable ==
    /\ \A id \in DOMAIN written :
           load_conversation(store, id) = IF HasDirectoryPart(id) THEN <<>> ELSE written[id]
    /\ (last.op = "load_conversation" /\ last.line.arg \in DOMAIN written) =>
           loaded_messages = IF HasDirectoryPart(last.line.arg) THEN <<>>
                             ELSE written[last.line.arg]

\* C6 witness: a list of two different messages was saved and read back in order
C6_Witness ==
    /\ last.op = "load_conversation"
    /\ last.line.arg \in DOMAIN written
    /\ loaded_messages = <<Message("user", "Hi"), Message("assistant", "Hello!")>>

\* C7: load_conversation of an id with no stored record returns the empty list
\* and leaves the stored records as they were.
C7_LoadMissing ==
    [][(last'.op = "load_conversation" /\ last'.line.arg \notin DOMAIN store) =>
          /\ loaded_messages' = <<>>
          /\ store' = store]_vars

\* C7 witness: an id without a record was loaded while other records are stored
C7_Witness ==
    /\ last.op = "load_conversation"
    /\ last.line.arg \notin DOMAIN store
    /\ store # EmptyDict
    /\ loaded_messages = <<>>

-----------------------------------------------------------------------------
(* Further properties of the session, checked under Spec *)

\* C11 as claimed: /save <newname> makes <newname> the active conversation with
\* the message sequence the active conversation held before the command, for a
\* name used before or not; a chat line after it is appended to that sequence
\* and persisted under <newname>.
C11_SaveRenames ==
    [][/\ (last'.op = "save" /\ Strip(last'.line.arg) # "") =>
              /\ last'.raised = ""
              /\ conversation' = Strip(last'.line.arg)
              /\ HasActive
              /\ conversation' \in DOMAIN conversation_history'
              /\ conversation_history'[conversation'] = Active
       /\ (last.op = "save" /\ last.ok /\ last'.op = "chat") =>
              /\ ChatStep(last')
              /\ conversation' = Strip(last.line.arg)
              /\ (last'.ok /\ ~HasDirectoryPart(conversation')) =>
                     load_conversation(store', conversation') =
                         conversation_history'[conversation']]_vars

\* C12 as claimed: no input line ends the interactive loop with an uncaught
\* error; the session terminates through /exit only and awaits input after every
\* other line.
C12_LoopNeverCrashes ==
    [][pc = "AwaitingInput" =>
          /\ last'.raised = ""
          /\ pc' # "Crashed"
          /\ IF Text(last'.line) = "/exit" THEN pc' = "Terminated"
             ELSE pc' = "AwaitingInput"]_vars

\* the line begins with one of the command words, whatever follows it
BeginsWithCommandToken(line) ==
    \/ line.head \in {"/exit", "/clear", "/help", "/list", "/vs", "/vm", "/vl",
                      "/verbosity ", "/save ", "/load "}
    \/ (line.head = "" /\ line.arg \in {"/save", "/load", "/verbosity"})

\* C13 as claimed: a line that begins with a command word is handled locally: no
\* request is sent and no user message is appended; when its argument is missing
\* or malformed only a hint is printed and no state changes.
C13_CommandsAreLocal ==
    [][(pc = "AwaitingInput" /\ BeginsWithCommandToken(last'.line)) =>
          /\ request' = <<>>
          /\ last'.op # "chat"
          /\ \A n \in DOMAIN conversation_history :
                 /\ n \in DOMAIN conversation_history'
                 /\ Len(conversation_history'[n]) <= Len(conversation_history[n])
          /\ (\/ (last'.line.head \in {"/save ", "/load "} /\ Strip(last'.line.arg) = "")
              \/ (last'.line.head = "/verbosity " /\ new_verbosity(last'.line) \notin Levels)
              \/ (last'.line.head = "" /\ last'.line.arg \in {"/save", "/load", "/verbosity"}))
             => UNCHANGED <<pc, env, config_file, store, config, conversation_history,
                            conversation>>]_vars

-----------------------------------------------------------------------------
(* The Config Store on its own: load_config called under every environment  *)
(* and every configuration file of the sets below                           *)

EnvVars == {"OPENROUTER_API_KEY", "DEFAULT_MODEL", "RESPONSE_VERBOSITY"}

EnvValue(var) ==
    CASE var = "OPENROUTER_API_KEY" -> "sk-or-v1-env"
      [] var = "DEFAULT_MODEL" -> "env/model"
      [] var = "RESPONSE_VERBOSITY" -> "detailed"

\* each variable is unset, set to the empty string, or set to a value
ConfigEnvs ==
    UNION {{[v \in D |-> IF v \in E THEN "" ELSE EnvValue(v)] : E \in SUBSET D} :
           D \in SUBSET EnvVars}

FileKeys == {"api_key", "default_model", "response_verbosity", "verbosity"}

FileValue(key) ==
    CASE key = "api_key" -> "sk-or-v1-file"
      [] key = "default_model" -> "file/model"
      [] key = "response_verbosity" -> "terse"
      [] key = "verbosity" -> "long"

\* config.json is missing, unparsable, or an object holding some of the keys
ConfigFiles ==
    {NoFile, BadFile} \cup {save_config([k \in D |-> FileValue(k)]) : D \in SUBSET FileKeys}

ConfigInit ==
    /\ pc = "Config"
    /\ env \in ConfigEnvs
    /\ config_file \in ConfigFiles
    /\ store = EmptyDict
    /\ config = EmptyDict
    /\ conversation_history = EmptyDict
    /\ conversation = None
    /\ request = <<>>
    /\ shown = ""
    /\ listing = {}
    /\ last = [op |-> "none", line |-> Line("", ""), resp |-> NoResponse, ok |-> FALSE,
               raised |-> ""]
    /\ saved = {}
    /\ written = EmptyDict
    /\ loaded_messages = <<>>
    /\ steps = 0

\* config = load_config()
CallLoadConfig ==
    /\ pc = "Config"
    /\ config' = load_config(env, config_file)
    /\ shown' = IF config_file.state = "unparsable" THEN "Error loading configuration file"
                ELSE ""
    /\ last' = [op |-> "load_config", line |-> Line("", ""), resp |-> NoResponse,
                ok |-> TRUE, raised |-> ""]
    /\ UNCHANGED <<pc, env, config_file, store, conversation_history, conversation, request,
                   listing, loaded_messages, saved, written, steps>>

ConfigNext == CallLoadConfig

ConfigSpec == ConfigInit /\ [][ConfigNext]_vars

\* the environment variable that overrides a key, None for a key without one
EnvVarOf(key) ==
    CASE key = "api_key" -> "OPENROUTER_API_KEY"
      [] key = "default_model" -> "DEFAULT_MODEL"
      [] key = "response_verbosity" -> "RESPONSE_VERBOSITY"
      [] OTHER -> None

\* the file is readable and holds the key
FileHas(key) == config_file.state = "json" /\ \E p \in config_file.text : p[1] = key

\* the environment holds a non-empty override for the key (settings.py:68-75
\* takes an empty variable as not set)
EnvHas(key) == EnvVarOf(key) \in DOMAIN env /\ env[EnvVarOf(key)] # ""

\* C14: for each key load_config returns the file's value when the file is
\* readable and holds the key, else the environment override when one is set
\* (an empty variable counts as not set), else the built-in default; a missing
\* or unparsable file does not make it fail and gives defaults plus environment.
C14_LoadConfigPriority ==
    last.op = "load_config" =>
        /\ last.raised = ""
        /\ DOMAIN config =
               (DOMAIN DEFAULT_CONFIG) \cup {k \in FileKeys : FileHas(k)}
        /\ \A k \in DOMAIN config :
               config[k] = IF FileHas(k) THEN (CHOOSE p \in config_file.text : p[1] = k)[2]
                           ELSE IF EnvHas(k) THEN env[EnvVarOf(k)]
                           ELSE DEFAULT_CONFIG[k]
        /\ config_file.state # "json" =>
               config = [k \in DOMAIN DEFAULT_CONFIG |->
                            IF EnvHas(k) THEN env[EnvVarOf(k)] ELSE DEFAULT_CONFIG[k]]

\* C14 witness: the file gave the key, the environment the model, the defaults
\* the response verbosity
C14_Witness ==
    /\ last.op = "load_config"
    /\ FileHas("api_key") /\ EnvHas("api_key") /\ EnvHas("default_model")
    /\ ~FileHas("default_model") /\ ~FileHas("response_verbosity")
    /\ config["api_key"] = "sk-or-v1-file"
    /\ config["default_model"] = "env/model"
    /\ config["response_verbosity"] = "brief"

-----------------------------------------------------------------------------
(* The Chat API Gateway on its own: chat_completion called with every       *)
(* message list and every answer of the sets below                          *)

\* the JSON bodies: an object with a detail field and, or not, an error object
\* (with or without a message) and a message field
JsonBody(error, message) ==
    LET keys == {"detail"} \cup (IF error = "absent" THEN {} ELSE {"error"})
                           \cup (IF message = "absent" THEN {} ELSE {"message"})
    IN  [k \in keys |->
            CASE k = "detail" -> "quota"
              [] k = "error" -> IF error = "empty" THEN EmptyDict
                                ELSE [m \in {"message"} |-> error]
              [] k = "message" -> message]

JsonText(error, message) ==
    "{detail:quota"
    \o (IF error = "absent" THEN "" ELSE IF error = "empty" THEN ",error:{}"
        ELSE ",error:{message:" \o error \o "}")
    \o (IF message = "absent" THEN "" ELSE ",message:" \o message)
    \o "}"

Statuses == {200, 401, 500}

GatewayResponses ==
    {Response(FALSE, status, TRUE, JsonBody(e, m), JsonText(e, m)) :
        status \in Statuses, e \in {"absent", "empty", "bad key"}, m \in {"absent", "denied"}}
    \cup {Response(FALSE, status, FALSE, EmptyDict, text) :
        status \in Statuses, text \in {"Bad Gateway", ""}}
    \cup {ConnectionFailed}

GatewayInit ==
    /\ pc = "Gateway"
    /\ env = NoEnv
    /\ config_file = NoFile
    /\ store = EmptyDict
    /\ config = DEFAULT_CONFIG
    /\ conversation_history = EmptyDict
    /\ conversation = None
    /\ request = <<>>
    /\ shown = ""
    /\ listing = {}
    /\ last = [op |-> "none", line |-> Line("", ""), resp |-> NoResponse, ok |-> FALSE,
               raised |-> ""]
    /\ saved = {}
    /\ written = EmptyDict
    /\ loaded_messages = <<>>
    /\ steps = 0

\* client.chat_completion(model, messages, ...): the request is posted when the
\* list is not empty; the error raised, if any, is recorded
CallCompletion(messages, resp) ==
    LET result == chat_completion(messages, resp)
    IN  /\ pc = "Gateway"
        /\ request' = IF Len(messages) = 0 THEN <<>> ELSE <<messages>>
        /\ shown' = IF result.ok THEN "" ELSE result.error
        /\ last' = [op |-> "chat_completion", line |-> Line("", ""),
                    resp |-> IF Len(messages) = 0 THEN NoResponse ELSE resp,
                    ok |-> result.ok, raised |-> result.error]
        /\ UNCHANGED <<pc, env, config_file, store, config, conversation_history,
                       conversation, listing, loaded_messages, saved, written, steps>>

GatewayNext ==
    \E messages \in MessageLists, resp \in GatewayResponses : CallCompletion(messages, resp)

GatewaySpec == GatewayInit /\ [][GatewayNext]_vars

\* C15 as claimed: on a status other than 200 the error raised carries the
\* body's error.message if present, else the body's message if present, else
\* the raw body if it is not empty, else the status code; a JSON body with
\* neither field gives the raw body.
C15_ErrorTextPrecedence ==
    (last.op = "chat_completion" /\ request # <<>> /\ ~last.resp.transport
         /\ last.resp.status # 200) =>
        /\ ~last.ok
        /\ last.raised =
               "API Error: " \o
               (IF last.resp.parses /\ "error" \in DOMAIN last.resp.json
                     /\ "message" \in DOMAIN last.resp.json["error"]
                THEN last.resp.json["error"]["message"]
                ELSE IF last.resp.parses /\ "message" \in DOMAIN last.resp.json
                THEN last.resp.json["message"]
                ELSE IF last.resp.text # "" THEN last.resp.text
                ELSE ToString(last.resp.status))

-----------------------------------------------------------------------------
(* Further properties of the session, checked under Spec *)

C17_EnteringSeedsOrLoads ==
    [][(last'.op = "start" /\ Truthy(api_key(config', env')) /\ conversation' # "") =>
          /\ last'.raised = ""
          /\ pc' = "AwaitingInput"
          /\ conversation' \in DOMAIN conversation_history'
          /\ conversation_history'[conversation'] =
                 IF load_conversation(store, conversation') = <<>>
                 THEN <<Message("system",
                                system_message(Get(config', "verbosity", "medium")))>>
                 ELSE load_conversation(store, conversation')]_vars


\* s is an initial part of t
IsPrefix(s, t) == Len(s) <= Len(t) /\ SubSeq(t, 1, Len(s)) = s

\* C18 as claimed: a step of the session other than /clear, /load and a verbosity
\* command leaves the active history with the history before the step as an
\* initial part; a verbosity command changes element 0 only.
C18_AppendOnly ==
    [][(pc = "AwaitingInput" /\ HasActive) =>
          IF last'.op \in {"clear", "load"} THEN TRUE
          ELSE IF last'.op = "verbosity"
          THEN /\ conversation' \in DOMAIN conversation_history'
               /\ Len(conversation_history'[conversation']) = Len(Active)
               /\ \A i \in 2..Len(Active) : conversation_history'[conversation'][i] = Active[i]
          ELSE /\ conversation' \in DOMAIN conversation_history'
               /\ IsPrefix(Active, conversation_history'[conversation'])]_vars

\* C19: /load <name> with a non-empty record stored under <name> makes <name> the
\* active conversation and the stored sequence its history; with no record, an
\* empty record or a blank name the active name, the in-memory histories and the
\* stored records stay as they were.
C19_LoadReplacesOrKeeps ==
    [][last'.op = "load" =>
          /\ last'.raised = ""
          /\ pc' = "AwaitingInput"
          /\ store' = store
          /\ IF Strip(last'.line.arg) # ""
                /\ load_conversation(store, Strip(last'.line.arg)) # <<>>
             THEN /\ conversation' = Strip(last'.line.arg)
                  /\ conversation' \in DOMAIN conversation_history'
                  /\ conversation_history'[conversation'] =
                         load_conversation(store, Strip(last'.line.arg))
             ELSE UNCHANGED <<conversation, conversation_history>>]_vars

\* C19 witness: a stored conversation was loaded over another active one
C19_Witness ==
    /\ last.op = "load" /\ last.ok
    /\ conversation = Strip(last.line.arg)
    /\ HasActive /\ Len(Active) = 3 /\ Active = load_conversation(store, conversation)
    /\ \E n \in DOMAIN conversation_history : n # conversation

\* C19 witness of the other case: /load named an empty stored record and nothing
\* changed
C19_WitnessEmpty ==
    /\ last.op = "load" /\ ~last.ok
    /\ Strip(last.line.arg) \in DOMAIN store
    /\ load_conversation(store, Strip(last.line.arg)) = <<>>
    /\ shown = "Conversation not found: " \o Strip(last.line.arg)

\* C20 as claimed: an empty input line starts no exchange: no message is appended
\* to the history and no request is sent.
C20_EmptyLineIgnored ==
    [][(pc = "AwaitingInput" /\ Text(last'.line) = "") =>
          /\ request' = <<>>
          /\ UNCHANGED conversation_history]_vars

-----------------------------------------------------------------------------
(* Frame properties of the session, checked under Spec *)

\* the keys and values of config.json, none when it is missing or unparsable
FileConfig(file) == IF file.state = "json" THEN ConfigParse(file.text) ELSE EmptyDict

\* the step just taken was a verbosity command with a valid level
ValidVerbosityStep(step) == step.op = "verbosity" /\ new_verbosity(step.line) \in Levels

\* C21 as claimed: a valid verbosity command changes the verbosity entry of
\* config.json only: every other key keeps its value and no key that was absent
\* from the file is added to it.
C21_OnlyVerbosityWritten ==
    [][ValidVerbosityStep(last') =>
          /\ config_file'.state = "json"
          /\ DOMAIN FileConfig(config_file') = (DOMAIN FileConfig(config_file)) \cup {"verbosity"}
          /\ FileConfig(config_file')["verbosity"] = new_verbosity(last'.line)
          /\ \A k \in (DOMAIN FileConfig(config_file)) \ {"verbosity"} :
                 FileConfig(config_file')[k] = FileConfig(config_file)[k]]_vars

\* C21 amended: a valid verbosity command overwrites config.json with the whole
\* configuration held in memory: verbosity is the new level, every other key the
\* file held keeps its value, and every key of the defaults the file did not
\* hold is added with its environment override, or its default when none is set.
C21_WholeConfigWritten ==
    [][ValidVerbosityStep(last') =>
          /\ config_file'.state = "json"
          /\ FileConfig(config_file') = Put(config, "verbosity", new_verbosity(last'.line))
          /\ DOMAIN FileConfig(config_file') =
                 (DOMAIN FileConfig(config_file)) \cup (DOMAIN DEFAULT_CONFIG) \cup {"verbosity"}
          /\ FileConfig(config_file')["verbosity"] = new_verbosity(last'.line)
          /\ \A k \in (DOMAIN FileConfig(config_file)) \ {"verbosity"} :
                 FileConfig(config_file')[k] = FileConfig(config_file)[k]
          /\ \A k \in (DOMAIN DEFAULT_CONFIG) \ (DOMAIN FileConfig(config_file)) :
                 FileConfig(config_file')[k] =
                     IF EnvHas(k) THEN env[EnvVarOf(k)] ELSE DEFAULT_CONFIG[k]]_vars

\* C21 witness: after /vs the file holds the key that came from the environment
\* only, next to the new level
C21_Witness ==
    /\ ValidVerbosityStep(last) /\ last.ok
    /\ env = KeyEnv
    /\ config_file.state = "json"
    /\ FileConfig(config_file)["api_key"] = ApiKey
    /\ FileConfig(config_file)["verbosity"] = "short"

\* C22: a chat line or a single message whose request fails leaves every stored
\* record as it was: the user message left in memory is not in the stored copy.
C22_FailureStoresNothing ==
    [][(last'.op \in {"chat", "message"} /\ last'.raised = "" /\ ~last'.ok) =>
          /\ store' = store
          /\ written' = written
          /\ conversation' \in DOMAIN conversation_history'
          /\ conversation_history'[conversation'][Len(conversation_history'[conversation'])] =
                 Message("user", Text(last'.line))]_vars

\* C22 witness: a conversation stored after a successful exchange holds one
\* message more in memory after a failed one
C22_Witness ==
    /\ ChatStep(last) /\ ~last.ok
    /\ conversation \in DOMAIN store
    /\ Len(load_conversation(store, conversation)) = 3
    /\ Active = Append(load_conversation(store, conversation), Message("user", "Hi"))

====
